---- MODULE Spec2Model ----
(***************************************************************************)
(* Attempt lifecycle and penalty engine of the exam-proctor backend        *)
(* (src/src/routes/exams.ts): one exam, its question bank, the attempts of *)
(* its students, their answers and the anti-fraud event log, driven by the *)
(* HTTP handlers that mutate them.  Every handler is one atomic action     *)
(* (requests are served one at a time in the sequential specifications).   *)
(*                                                                         *)
(* Strings that the code inspects character by character (violation       *)
(* types, text answers) are sequences of one-character strings.  Time is   *)
(* in seconds since the exam row was created.                              *)
(***************************************************************************)
EXTENDS Integers, Sequences, FiniteSets, TLC

\* ------------------------------------------------------------------ bounds
MaxLives == 2
MaxTicks == 3
MaxRequests == 4

\* SQL NULL / JS null of a nullable numeric or timestamp column.
Null == 0 - 1

\* ------------------------------------------------------- character strings
UpperChars == <<"A","B","C","D","E","F","G","H","I","J","K","L","M",
                "N","O","P","Q","R","S","T","U","V","W","X","Y","Z">>
LowerChars == <<"a","b","c","d","e","f","g","h","i","j","k","l","m",
                "n","o","p","q","r","s","t","u","v","w","x","y","z">>
DigitChars == {"0","1","2","3","4","5","6","7","8","9"}
SpaceChars == {" ", "\t", "\n"}

Range(f) == {f[i] : i \in DOMAIN f}

\* String.prototype.toLowerCase on one character
LowerChar(c) ==
  IF \E i \in 1..26 : UpperChars[i] = c
  THEN LowerChars[CHOOSE i \in 1..26 : UpperChars[i] = c]
  ELSE c

\* String.prototype.toUpperCase on one character
UpperChar(c) ==
  IF \E i \in 1..26 : LowerChars[i] = c
  THEN UpperChars[CHOOSE i \in 1..26 : LowerChars[i] = c]
  ELSE c

toLowerCase(s) == [i \in 1..Len(s) |-> LowerChar(s[i])]
toUpperCase(s) == [i \in 1..Len(s) |-> UpperChar(s[i])]

RECURSIVE trimStart(_)
trimStart(s) ==
  IF s # <<>> /\ Head(s) \in SpaceChars THEN trimStart(Tail(s)) ELSE s

RECURSIVE trimEnd(_)
trimEnd(s) ==
  IF s # <<>> /\ s[Len(s)] \in SpaceChars
  THEN trimEnd(SubSeq(s, 1, Len(s) - 1))
  ELSE s

\* String.prototype.trim
trim(s) == trimEnd(trimStart(s))

\* String.prototype.includes
includes(s, sub) ==
  \E i \in 0..(Len(s) - Len(sub)) : SubSeq(s, i + 1, i + Len(sub)) = sub

IsLowerAlnum(c) == c \in Range(LowerChars) \cup DigitChars

\* s.replace(/[^a-z0-9]+/g, "_"): every maximal run of other characters
\* becomes one underscore
RECURSIVE replaceNonAlnumRuns(_)
replaceNonAlnumRuns(s) ==
  IF s = <<>> THEN <<>>
  ELSE IF IsLowerAlnum(Head(s)) THEN <<Head(s)>> \o replaceNonAlnumRuns(Tail(s))
  ELSE IF Len(s) >= 2 /\ ~IsLowerAlnum(s[2]) THEN replaceNonAlnumRuns(Tail(s))
  ELSE <<"_">> \o replaceNonAlnumRuns(Tail(s))

RECURSIVE stripLeadingUnderscores(_)
stripLeadingUnderscores(s) ==
  IF s # <<>> /\ Head(s) = "_" THEN stripLeadingUnderscores(Tail(s)) ELSE s

RECURSIVE stripTrailingUnderscores(_)
stripTrailingUnderscores(s) ==
  IF s # <<>> /\ s[Len(s)] = "_"
  THEN stripTrailingUnderscores(SubSeq(s, 1, Len(s) - 1))
  ELSE s

\* s.replace(/^_+|_+$/g, "")
stripUnderscores(s) == stripTrailingUnderscores(stripLeadingUnderscores(s))

FULLSCREEN == <<"f","u","l","l","s","c","r","e","e","n">>
EXIT == <<"e","x","i","t">>
FULLSCREEN_EXIT_RAW == FULLSCREEN \o <<"_">> \o EXIT

\* POST /attempts/:id/antifraud: type -> normalizedType
normalizedTypeAntifraud(type) ==
  LET lowered == toLowerCase(trim(type))
      rawType == IF includes(lowered, FULLSCREEN) /\ includes(lowered, EXIT)
                 THEN FULLSCREEN_EXIT_RAW
                 ELSE lowered
  IN  toUpperCase(stripUnderscores(replaceNonAlnumRuns(rawType)))

\* POST /s/attempt/:id/event: type -> normalizedType
normalizedTypeSEvent(type) ==
  toUpperCase(replaceNonAlnumRuns(toLowerCase(trim(type))))

PENALTY_TYPES ==
  { <<"B","L","U","R">>,
    <<"V","I","S","I","B","I","L","I","T","Y","_","H","I","D","D","E","N">>,
    <<"C","O","P","Y">>,
    <<"C","U","T">>,
    <<"P","A","S","T","E">>,
    <<"P","R","I","N","T">>,
    <<"P","R","I","N","T","S","C","R","E","E","N">>,
    <<"F","U","L","L","S","C","R","E","E","N","_","E","X","I","T">> }

Min(a, b) == IF a <= b THEN a ELSE b
Max(a, b) == IF a >= b THEN a ELSE b

\* ------------------------------------------------------------ JSON values
\* A JSON / JS value as the handlers see it: t is its type tag, n the number
\* (or 1/0 of a boolean), s the characters of a string, a the elements of an
\* array of strings (or of the "answers" array of an object).
VNull == [t |-> "null", n |-> 0, s |-> <<>>, a |-> <<>>]
VNum(n) == [t |-> "num", n |-> n, s |-> <<>>, a |-> <<>>]
VStr(s) == [t |-> "str", n |-> 0, s |-> s, a |-> <<>>]
VBool(b) == [t |-> "bool", n |-> IF b THEN 1 ELSE 0, s |-> <<>>, a |-> <<>>]
VArr(a) == [t |-> "arr", n |-> 0, s |-> <<>>, a |-> a]
VObj(a) == [t |-> "obj", n |-> 0, s |-> <<>>, a |-> a]

DigitSeq == <<"0","1","2","3","4","5","6","7","8","9">>

RECURSIVE NatToStr(_)
NatToStr(n) ==
  IF n < 10 THEN <<DigitSeq[n + 1]>>
  ELSE NatToStr(n \div 10) \o <<DigitSeq[(n % 10) + 1]>>

IntToStr(n) == IF n < 0 THEN <<"-">> \o NatToStr(0 - n) ELSE NatToStr(n)

RECURSIVE joinComma(_)
joinComma(a) ==
  IF a = <<>> THEN <<>>
  ELSE IF Len(a) = 1 THEN a[1]
  ELSE a[1] \o <<",">> \o joinComma(Tail(a))

\* String(v ?? "")
StringOrEmpty(v) ==
  CASE v.t = "null" -> <<>>
    [] v.t = "num" -> IntToStr(v.n)
    [] v.t = "str" -> v.s
    [] v.t = "bool" -> IF v.n = 1 THEN <<"t","r","u","e">> ELSE <<"f","a","l","s","e">>
    [] v.t = "arr" -> joinComma(v.a)
    [] OTHER -> <<"[","o","b","j","e","c","t"," ","O","b","j","e","c","t","]">>

IsDigits(s) == s # <<>> /\ \A i \in 1..Len(s) : s[i] \in DigitChars

RECURSIVE DigitsToNat(_)
DigitsToNat(s) ==
  IF s = <<>> THEN 0
  ELSE 10 * DigitsToNat(SubSeq(s, 1, Len(s) - 1))
       + (CHOOSE d \in 0..9 : DigitSeq[d + 1] = s[Len(s)])

\* Number(s) of a string: the empty set stands for NaN
NumberOfStr(s) ==
  LET u == trim(s) IN
  IF u = <<>> THEN {0}
  ELSE IF IsDigits(u) THEN {DigitsToNat(u)}
  ELSE IF Head(u) = "-" /\ IsDigits(Tail(u)) THEN {0 - DigitsToNat(Tail(u))}
  ELSE {}

\* Number(v ?? dflt): the empty set stands for NaN
NumberOr(v, dflt) ==
  CASE v.t = "null" -> {dflt}
    [] v.t = "num" -> {v.n}
    [] v.t = "bool" -> {v.n}
    [] v.t = "str" -> NumberOfStr(v.s)
    [] v.t = "arr" -> NumberOfStr(joinComma(v.a))
    [] OTHER -> {}

\* JSON.stringify of an array of strings
RECURSIVE jsonElems(_)
jsonElems(a) ==
  IF a = <<>> THEN <<>>
  ELSE <<"\"">> \o a[1] \o <<"\"">>
       \o (IF Len(a) > 1 THEN <<",">> ELSE <<>>) \o jsonElems(Tail(a))

JSONstringifyArr(a) == <<"[">> \o jsonElems(a) \o <<"]">>

\* ---------------------------------------------------------- question kinds
K_FIB == <<"F","I","B">>
K_TEXT == <<"T","E","X","T">>
K_FILL_IN == <<"F","I","L","L","_","I","N">>
K_SHORT_TEXT == <<"S","H","O","R","T","_","T","E","X","T">>
K_MCQ == <<"M","C","Q">>
K_TRUE_FALSE == <<"T","R","U","E","_","F","A","L","S","E">>

normalizeQuestionKind(kind) ==
  LET k == toUpperCase(kind) IN
  IF k = K_FIB THEN K_FILL_IN
  ELSE IF k = K_TEXT THEN K_SHORT_TEXT
  ELSE k

\* const pts = Number(q.points ?? 1) || 1
QuestionPts(q) == IF q.points = Null \/ q.points = 0 THEN 1 ELSE q.points

\* FILL_IN: expected = correct?.answers when it is an array, else []
FillExpected(correct) == IF correct.t = "obj" THEN correct.a ELSE <<>>

\* FILL_IN: givenArr from the given value
FillGiven(given) ==
  IF given.t \in {"arr", "obj"} THEN given.a ELSE <<>>

\* FILL_IN: the blanks whose given text differs from the expected one
FillMisses(expected, givenArr) ==
  Cardinality({i \in 1..Len(expected) :
     toLowerCase(trim(IF i <= Len(givenArr) THEN givenArr[i] ELSE <<>>))
       # toLowerCase(trim(expected[i]))})

\* FILL_IN: number of blanks whose given text matches the expected one
FillOk(expected, givenArr) ==
  Cardinality({i \in 1..Len(expected) :
     toLowerCase(trim(IF i <= Len(givenArr) THEN givenArr[i] ELSE <<>>))
       = toLowerCase(trim(expected[i]))})

TrueFalsePartial(correct, given, pts) ==
  IF toLowerCase(StringOrEmpty(given)) = toLowerCase(StringOrEmpty(correct))
  THEN pts ELSE 0

McqPartial(correct, given, pts) ==
  LET givenNum == NumberOr(given, 0 - 999)
      corrNum == NumberOr(correct, 0 - 888)
  IN  IF givenNum # {} /\ givenNum = corrNum THEN pts ELSE 0

ShortTextPartial(correct, given, pts) ==
  LET corr == toLowerCase(trim(StringOrEmpty(correct)))
      givenStr == toLowerCase(trim(StringOrEmpty(given)))
  IN  IF corr # <<>> /\ givenStr # <<>> /\ corr = givenStr THEN pts ELSE 0

\* partial = expected.length ? (pts * ok) / expected.length : 0
\* (the banks below keep pts * ok a multiple of the number of blanks)
FillInPartial(correct, given, pts) ==
  LET expected == FillExpected(correct) IN
  IF Len(expected) # 0
  THEN (pts * FillOk(expected, FillGiven(given))) \div Len(expected)
  ELSE 0

\* POST /attempts/:id/submit, auto mode: partial of one answer (never null)
SubmitPartial(q, given) ==
  LET kind == normalizeQuestionKind(q.kind)
      pts == QuestionPts(q)
  IN  CASE kind = K_TRUE_FALSE -> TrueFalsePartial(q.correct, given, pts)
        [] kind = K_MCQ -> McqPartial(q.correct, given, pts)
        [] kind = K_SHORT_TEXT -> ShortTextPartial(q.correct, given, pts)
        [] kind = K_FILL_IN -> FillInPartial(q.correct, given, pts)
        [] OTHER -> 0

\* finalizeAttemptIfExpired, auto mode: partial of one question (Null for a
\* kind it does not know)
ExpiryPartial(q, given) ==
  LET kind == normalizeQuestionKind(q.kind)
      pts == QuestionPts(q)
  IN  CASE kind = K_TRUE_FALSE -> TrueFalsePartial(q.correct, given, pts)
        [] kind = K_MCQ -> McqPartial(q.correct, given, pts)
        [] kind = K_SHORT_TEXT -> ShortTextPartial(q.correct, given, pts)
        [] kind = K_FILL_IN -> FillInPartial(q.correct, given, pts)
        [] OTHER -> Null

\* serializeAnswerContent(kind, value): what Submit stores in Answer.content
serializeAnswerContent(kind, value) ==
  LET k == normalizeQuestionKind(kind) IN
  IF k = K_FILL_IN
  THEN LET arr == IF value.t = "arr" THEN value.a
                  ELSE IF value.t = "obj" THEN value.a
                  ELSE IF value.t \in {"str", "num"} THEN <<StringOrEmpty(value)>>
                  ELSE <<>>
       IN  VStr(JSONstringifyArr([i \in 1..Len(arr) |-> trim(arr[i])]))
  ELSE IF k = K_MCQ
  THEN IF value.t = "null" \/ (value.t = "str" /\ value.s = <<>>)
       THEN VNull
       ELSE VStr(StringOrEmpty(value))
  ELSE IF value.t = "null" THEN VNull ELSE VStr(StringOrEmpty(value))

\* ------------------------------------------------------------------ state
VARIABLES
  exam,       \* the Exam row
  questions,  \* the exam's QuestionLite rows, ORDER BY createdAt
  attempts,   \* the Attempt rows, in creation order; an attempt's id is its index
  answers,    \* the Answer rows
  events,     \* the Event rows, in creation order
  now,        \* the wall clock
  resp,       \* the response of the last request served
  served,     \* the number of requests served so far
  pending     \* the requests in flight between their reads and their write,
              \* in arrival order: the student keys of start requests, or
              \* what a penalty request has read

vars == <<exam, questions, attempts, answers, events, now, resp, served, pending>>

\* ------------------------------------------------------------ input sets
TickSteps == {30}
ExtraSeconds == {30}
OWNER == "teacher-1"
Callers == {OWNER, "teacher-2"}
ExamRows(lives, durations, gradingModes, startsAts, endsAts) ==
  [lives : lives, durationMins : durations, gradingMode : gradingModes,
   isOpen : {TRUE}, startsAt : startsAts, endsAt : endsAts, ownerId : {OWNER}]
StudentKeys == {"email:ana@x", "name:Bo"}

S_gato == <<"g","a","t","o">>
S_perro == <<"p","e","r","r","o">>
S_loro == <<"l","o","r","o">>

QMcq == [id |-> "q1", kind |-> K_MCQ, correct |-> VNum(1), points |-> 4]
QFill == [id |-> "q2", kind |-> K_FIB,
          correct |-> VObj(<<S_gato, S_perro>>), points |-> 10]
Banks == {<<QMcq, QFill>>}

AttemptIds == 1..Len(attempts)

Resp(op, id, code, error) == [op |-> op, id |-> id, code |-> code, error |-> error]

\* ------------------------------------------------------------------ Init
\* POST /api/exams creates the exam (lives >= 0, duration null or >= 0) and
\* PUT /exams/:code, PUT /exams/:code/meta set the rest; no attempt exists.
InitWith(exams) ==
  /\ exam \in exams
  /\ questions \in Banks
  /\ attempts = <<>>
  /\ answers = {}
  /\ events = <<>>
  /\ now = 0
  /\ resp = Resp("none", 0, 0, "")
  /\ served = 0
  /\ pending = <<>>

\* ------------------------------------------------------------------ time
Tick ==
  /\ \E d \in TickSteps :
       /\ now + d <= MaxTicks * d
       /\ now' = now + d
  /\ UNCHANGED <<exam, questions, attempts, answers, events, resp, served, pending>>

\* ---------------------------------------------------------------- expiry
\* computeDeadline without the extra time
computeDeadlineNoExtra(startAt, durationMins, extraTimeSecs) ==
  startAt + durationMins * 60

computeDeadline(startAt, durationMins, extraTimeSecs) ==
  startAt + durationMins * 60 + extraTimeSecs

isExpired(t, deadline) == t >= deadline

\* finalizeAttemptIfExpired: does it finalize this attempt row now?
Expires(att, ex, t) ==
  /\ att.endAt = Null
  /\ ex.durationMins # Null
  /\ ex.durationMins > 0
  /\ isExpired(t, computeDeadline(att.startAt, ex.durationMins, att.extraTimeSecs))

\* the Answer row stored for (attempt, question), if any
StoredRows(ans, id, qid) == {r \in ans : r.attemptId = id /\ r.questionId = qid}

\* unwrapAnswerContent(stored?.content ?? null).value
GivenOf(ans, id, qid) ==
  IF StoredRows(ans, id, qid) = {} THEN VNull
  ELSE (CHOOSE r \in StoredRows(ans, id, qid) : TRUE).value

RECURSIVE SumPartials(_, _, _)
\* the score finalizeAttemptIfExpired accumulates over the questions qs
SumPartials(qs, ans, id) ==
  IF qs = <<>> THEN 0
  ELSE LET partial == ExpiryPartial(Head(qs), GivenOf(ans, id, Head(qs).id))
       IN  (IF partial # Null THEN partial ELSE 0) + SumPartials(Tail(qs), ans, id)

\* finalizeAttemptIfExpired, auto mode: every stored answer of a question of
\* the exam gets its partial as score
ExpiryAnswers(ans, id, qs) ==
  { IF r.attemptId = id /\ \E i \in 1..Len(qs) : qs[i].id = r.questionId
    THEN [r EXCEPT !.score =
            ExpiryPartial(qs[CHOOSE i \in 1..Len(qs) : qs[i].id = r.questionId],
                          r.value)]
    ELSE r : r \in ans }

IsManual(ex) == ex.gradingMode = "manual"

\* finalizeAttemptIfExpired: the attempt row it returns
finalizeAttemptRow(att, id, ex, qs, ans, t) ==
  IF ~Expires(att, ex, t) THEN att
  ELSE [att EXCEPT !.status = "submitted",
                   !.endAt = t,
                   !.score = IF IsManual(ex) THEN Null ELSE SumPartials(qs, ans, id)]

\* finalizeAttemptIfExpired: the Answer table it leaves
finalizeAnswers(att, id, ex, qs, ans, t) ==
  IF Expires(att, ex, t) /\ ~IsManual(ex) THEN ExpiryAnswers(ans, id, qs) ELSE ans

\* GET /attempts/:id/summary
Summary(id) ==
  /\ id \in AttemptIds
  /\ attempts' = [attempts EXCEPT
                    ![id] = finalizeAttemptRow(attempts[id], id, exam, questions, answers, now)]
  /\ answers' = finalizeAnswers(attempts[id], id, exam, questions, answers, now)
  /\ resp' = Resp("summary", id, 200, "")
  /\ UNCHANGED <<exam, questions, events, now>>

\* GET /attempts/:id/summary of the older revision of routes/exams.ts: the
\* attempt row it leaves
summaryOldRow(att, ex, t) ==
  IF ex.durationMins = Null THEN att
  ELSE LET totalSecs == ex.durationMins * 60 + att.extraTimeSecs
           elapsedSecs == t - att.startAt
           secondsLeft == Max(0, totalSecs - elapsedSecs)
       IN  IF secondsLeft = 0 /\ att.status # "finished"
           THEN [att EXCEPT !.status = "finished", !.endAt = t]
           ELSE att

SummaryOld(id) ==
  /\ id \in AttemptIds
  /\ attempts' = [attempts EXCEPT ![id] = summaryOldRow(@, exam, now)]
  /\ resp' = Resp("summary_old", id, 200, "")
  /\ UNCHANGED <<exam, questions, answers, events, now>>

\* hasExamRole: the exam has no ExamMember rows, so only its owner has a role
hasExamRole(ex, userId) == ex.ownerId = userId

RECURSIVE finalizeAll(_, _)
\* the Answer table after finalizeAttemptIfExpired ran on the attempts ids
finalizeAll(ids, ans) ==
  IF ids = {} THEN ans
  ELSE LET id == CHOOSE i \in ids : TRUE
       IN  finalizeAll(ids \ {id},
                       finalizeAnswers(attempts[id], id, exam, questions, ans, now))

\* GET /exams/:code/attempts (the proctor's board)
ListAttempts(userId) ==
  /\ IF ~hasExamRole(exam, userId)
     THEN /\ resp' = Resp("list", 0, 403, "FORBIDDEN")
          /\ UNCHANGED <<attempts, answers>>
     ELSE /\ attempts' = [id \in AttemptIds |->
                            finalizeAttemptRow(attempts[id], id, exam, questions, answers, now)]
          /\ answers' = finalizeAll(AttemptIds, answers)
          /\ resp' = Resp("list", 0, 200, "")
  /\ UNCHANGED <<exam, questions, events, now>>

\* ----------------------------------------------------------------- start
NewAttempt(studentKey) ==
  [studentId |-> studentKey, status |-> "in_progress", startAt |-> now,
   endAt |-> Null, score |-> Null, livesUsed |-> 0, paused |-> FALSE,
   extraTimeSecs |-> 0]

\* the rows of the first findFirst of the start handler
inProgressIds(atts, studentKey) ==
  {id \in 1..Len(atts) :
     /\ atts[id].studentId = studentKey
     /\ atts[id].status = "in_progress"
     /\ atts[id].endAt = Null}

\* the second findFirst looking at the status alone
alreadySubmittedIdsStatusOnly(atts, studentKey) ==
  {id \in 1..Len(atts) :
     /\ atts[id].studentId = studentKey
     /\ atts[id].status \in {"submitted", "in_review", "graded"}}

\* the rows of its second findFirst
alreadySubmittedIds(atts, studentKey) ==
  {id \in 1..Len(atts) :
     /\ atts[id].studentId = studentKey
     /\ \/ atts[id].endAt # Null
        \/ atts[id].status \in {"submitted", "in_review", "graded"}}

\* the window tests of the start handler
examNotOpenNever(ex, t) == FALSE

examNotOpen(ex, t) == ex.startsAt # Null /\ t < ex.startsAt

examClosed(ex, t) == ex.endsAt # Null /\ t > ex.endsAt

\* POST /exams/:code/attempts/start
Start(studentKey) ==
  LET inProgress == inProgressIds(attempts, studentKey)
      alreadySubmitted == alreadySubmittedIds(attempts, studentKey)
  IN
  /\ IF studentKey = ""
     THEN /\ resp' = Resp("start", 0, 400, "MISSING_NAME")
          /\ UNCHANGED <<attempts, answers>>
     ELSE IF inProgress # {}
     THEN \E id \in inProgress :
            LET maybeFinal ==
                  finalizeAttemptRow(attempts[id], id, exam, questions, answers, now)
            IN  /\ attempts' = [attempts EXCEPT ![id] = maybeFinal]
                /\ answers' = finalizeAnswers(attempts[id], id, exam, questions, answers, now)
                /\ resp' = IF maybeFinal.endAt # Null
                           THEN Resp("start", id, 409, "ATTEMPT_ALREADY_SUBMITTED")
                           ELSE Resp("start", id, 200, "")
     ELSE IF alreadySubmitted # {}
     THEN /\ resp' = Resp("start", 0, 409, "ATTEMPT_ALREADY_SUBMITTED")
          /\ UNCHANGED <<attempts, answers>>
     ELSE IF examNotOpen(exam, now)
     THEN /\ resp' = Resp("start", 0, 403, "EXAM_NOT_OPEN")
          /\ UNCHANGED <<attempts, answers>>
     ELSE IF examClosed(exam, now)
     THEN /\ resp' = Resp("start", 0, 403, "EXAM_CLOSED")
          /\ UNCHANGED <<attempts, answers>>
     ELSE /\ attempts' = Append(attempts, NewAttempt(studentKey))
          /\ resp' = Resp("start", Len(attempts) + 1, 200, "")
          /\ UNCHANGED answers
  /\ UNCHANGED <<exam, questions, events, now>>

\* The start handler is not atomic: its lookups and its create are separate
\* awaits.  StartLookup is a request whose lookups and window tests all pass,
\* up to the await of prisma.attempt.create (the other outcomes answer at
\* once, as in Start).
StartLookup(studentKey) ==
  /\ studentKey # ""
  /\ inProgressIds(attempts, studentKey) = {}
  /\ alreadySubmittedIds(attempts, studentKey) = {}
  /\ ~examNotOpen(exam, now)
  /\ ~examClosed(exam, now)
  /\ served < MaxRequests
  /\ served' = served + 1
  /\ pending' = Append(pending, studentKey)
  /\ UNCHANGED <<exam, questions, attempts, answers, events, now, resp>>

\* prisma.attempt.create of a pending start request and its response
StartCreate(i) ==
  /\ i \in DOMAIN pending
  /\ attempts' = Append(attempts, NewAttempt(pending[i]))
  /\ resp' = Resp("start", Len(attempts) + 1, 200, "")
  /\ pending' = SubSeq(pending, 1, i - 1) \o SubSeq(pending, i + 1, Len(pending))
  /\ UNCHANGED <<exam, questions, answers, events, now, served>>

\* --------------------------------------------------------------- answers
\* An Answer row: value is the answer inside content (content itself, or
\* content.value when content is the {value, teacherFeedback} wrapper),
\* wrapped tells whether content is that wrapper, feedback its
\* teacherFeedback ("" when null), score Answer.score.
AnswerRow(id, qid, value, wrapped, feedback, score) ==
  [attemptId |-> id, questionId |-> qid, value |-> value, wrapped |-> wrapped,
   feedback |-> feedback, score |-> score]

OtherRows(ans, id, qid) == ans \ StoredRows(ans, id, qid)

\* the draft handler creating a row without looking for the stored one
draftUpsertCreateOnly(ans, id, qid, value) ==
  ans \cup {AnswerRow(id, qid, value, FALSE, "", Null)}

\* the draft upsert also writing a score
draftUpsertScored(ans, id, qid, value) ==
  OtherRows(ans, id, qid) \cup {AnswerRow(id, qid, value, FALSE, "", 0)}

\* prisma.answer.upsert of the draft handler: content := value
draftUpsert(ans, id, qid, value) ==
  IF StoredRows(ans, id, qid) = {}
  THEN ans \cup {AnswerRow(id, qid, value, FALSE, "", Null)}
  ELSE OtherRows(ans, id, qid)
       \cup {[r EXCEPT !.value = value, !.wrapped = FALSE, !.feedback = ""] :
               r \in StoredRows(ans, id, qid)}

RECURSIVE draftLoop(_, _, _)
\* the loop over the items of the body; an oversized value ends it with 400
draftLoop(items, ans, id) ==
  IF items = <<>> THEN [ans |-> ans, error |-> ""]
  ELSE LET item == Head(items) IN
       IF item.questionId = "" THEN draftLoop(Tail(items), ans, id)
       ELSE IF item.oversized THEN [ans |-> ans, error |-> "ANSWER_VALUE_TOO_LARGE"]
       ELSE draftLoop(Tail(items), draftUpsert(ans, id, item.questionId, item.value), id)

\* PATCH /attempts/:attemptId/draft
SaveDraft(id, items) ==
  /\ id \in AttemptIds
  /\ IF attempts[id].endAt # Null \/ attempts[id].status # "in_progress"
     THEN /\ resp' = Resp("draft", id, 409, "ATTEMPT_CLOSED")
          /\ UNCHANGED answers
     ELSE LET out == draftLoop(items, answers, id) IN
          /\ answers' = out.ans
          /\ resp' = IF out.error = "" THEN Resp("draft", id, 200, "")
                     ELSE Resp("draft", id, 400, out.error)
  /\ UNCHANGED <<exam, questions, attempts, events, now>>

\* ---------------------------------------------------------------- submit
QuestionById(qs, qid) == {i \in 1..Len(qs) : qs[i].id = qid}

\* findFirst + update / create of the submit handler
submitUpsert(ans, id, qid, content, partial) ==
  IF StoredRows(ans, id, qid) = {}
  THEN ans \cup {AnswerRow(id, qid, content, FALSE, "", partial)}
  ELSE OtherRows(ans, id, qid)
       \cup {[r EXCEPT !.value = content, !.wrapped = FALSE, !.feedback = "",
                       !.score = partial] : r \in StoredRows(ans, id, qid)}

RECURSIVE submitLoop(_, _, _, _, _, _)
\* the loop over the submitted answers: the Answer table and the score
submitLoop(arr, ans, score, id, qs, manual) ==
  IF arr = <<>> THEN [ans |-> ans, score |-> score]
  ELSE LET a == Head(arr) IN
       IF QuestionById(qs, a.questionId) = {}
       THEN submitLoop(Tail(arr), ans, score, id, qs, manual)
       ELSE LET q == qs[CHOOSE i \in QuestionById(qs, a.questionId) : TRUE]
                partial == IF manual THEN Null ELSE SubmitPartial(q, a.value)
                storedContent == serializeAnswerContent(q.kind, a.value)
            IN  submitLoop(Tail(arr),
                           submitUpsert(ans, id, q.id, storedContent, partial),
                           score + (IF partial # Null THEN partial ELSE 0),
                           id, qs, manual)

\* the submit handler writing the accumulated score in every mode
submitAttemptRowScored(att, score, manual, t) ==
  [att EXCEPT !.status = "submitted", !.endAt = t, !.score = score]

\* the Attempt row the submit handler writes
submitAttemptRow(att, score, manual, t) ==
  [att EXCEPT !.status = "submitted",
              !.endAt = t,
              !.score = IF manual THEN Null ELSE score]

\* POST /attempts/:id/submit
Submit(id, arr) ==
  /\ id \in AttemptIds
  /\ IF arr = <<>>
     THEN /\ resp' = Resp("submit", id, 400, "NO_ANSWERS")
          /\ UNCHANGED <<attempts, answers>>
     ELSE LET out == submitLoop(arr, answers, 0, id, questions, IsManual(exam)) IN
          /\ answers' = out.ans
          /\ attempts' = [attempts EXCEPT
                            ![id] = submitAttemptRow(attempts[id], out.score, IsManual(exam), now)]
          /\ resp' = Resp("submit", id, 200, "")
  /\ UNCHANGED <<exam, questions, events, now>>

\* ------------------------------------------------------- penalties, lives
Event(id, type, reason) == [attemptId |-> id, type |-> type, reason |-> reason]

\* used after the request, without Math.min
antifraudUsedNoClamp(used, maxLives, normalizedType) ==
  IF normalizedType \in PENALTY_TYPES THEN used + 1 ELSE used

\* POST /attempts/:id/antifraud: used after the request
antifraudUsed(used, maxLives, normalizedType) ==
  IF normalizedType \in PENALTY_TYPES THEN Min(maxLives, used + 1) ELSE used

\* POST /attempts/:id/antifraud and POST /s/attempt/:id/event: the attempt
\* row written, given the new livesUsed
penaltyAttemptRow(att, used, maxLives, t) ==
  LET remaining == Max(0, maxLives - used)
      closes == remaining = 0 /\ att.status # "finished"
  IN  [att EXCEPT !.livesUsed = used,
                  !.status = IF closes THEN "finished" ELSE att.status,
                  !.endAt = IF closes THEN t ELSE att.endAt]

\* POST /attempts/:id/antifraud
Antifraud(id, type) ==
  /\ id \in AttemptIds
  /\ IF type = <<>>
     THEN /\ resp' = Resp("antifraud", id, 400, "MISSING_TYPE")
          /\ UNCHANGED <<attempts, events>>
     ELSE LET normalizedType == normalizedTypeAntifraud(type)
              used == antifraudUsed(attempts[id].livesUsed, exam.lives, normalizedType)
          IN  /\ attempts' = [attempts EXCEPT
                                ![id] = penaltyAttemptRow(attempts[id], used, exam.lives, now)]
              /\ events' = Append(events, Event(id, "ANTIFRAUD", normalizedType))
              /\ resp' = Resp("antifraud", id, 200, "")
  /\ UNCHANGED <<exam, questions, answers, now>>

\* POST /s/attempt/:id/event: newLivesUsed
sEventUsed(prevUsed, maxLives) == Min(prevUsed + 1, maxLives)

\* POST /s/attempt/:id/event
SEvent(id, type) ==
  /\ id \in AttemptIds
  /\ IF type = <<>>
     THEN /\ resp' = Resp("s_event", id, 400, "MISSING_TYPE")
          /\ UNCHANGED <<attempts, events>>
     ELSE LET newLivesUsed == sEventUsed(attempts[id].livesUsed, exam.lives) IN
          /\ attempts' = [attempts EXCEPT
                            ![id] = penaltyAttemptRow(attempts[id], newLivesUsed, exam.lives, now)]
          /\ events' = Append(events, Event(id, "ANTIFRAUD", normalizedTypeSEvent(type)))
          /\ resp' = Resp("s_event", id, 200, "")
  /\ UNCHANGED <<exam, questions, answers, now>>

\* PATCH /attempts/:id/lives: used after the request
livesPatchUsed(used, maxLives, op) ==
  IF op = "increment" THEN Max(0, used - 1) ELSE Min(maxLives, used + 1)

\* PATCH /attempts/:id/lives
LivesPatch(id, op) ==
  /\ id \in AttemptIds
  /\ IF op \notin {"increment", "decrement"}
     THEN /\ resp' = Resp("lives", id, 400, "INVALID_OP")
          /\ UNCHANGED <<attempts, events>>
     ELSE /\ attempts' = [attempts EXCEPT
                            ![id].livesUsed = livesPatchUsed(@, exam.lives, op)]
          /\ events' = Append(events,
                          Event(id, "LIVES_PATCH",
                                IF op = "increment" THEN <<"MANUAL_LIFE_INCREMENT">>
                                ELSE <<"MANUAL_LIFE_DECREMENT">>))
          /\ resp' = Resp("lives", id, 200, "")
  /\ UNCHANGED <<exam, questions, answers, now>>

\* POST /attempts/:id/mod: the attempt row written
modAttemptRow(att, action, seconds) ==
  CASE action = "forgive_life" -> [att EXCEPT !.livesUsed = Max(0, @ - 1)]
    [] action = "add_time" ->
         IF seconds > 0 THEN [att EXCEPT !.extraTimeSecs = @ + seconds] ELSE att
    [] action = "pause" -> [att EXCEPT !.paused = TRUE]
    [] action = "resume" -> [att EXCEPT !.paused = FALSE]
    [] OTHER -> att

ModActions == {"forgive_life", "add_time", "pause", "resume"}

\* POST /attempts/:id/mod (behind authMiddleware: userId is the caller)
Mod(userId, id, action, seconds) ==
  /\ id \in AttemptIds
  /\ IF exam.ownerId # userId
     THEN /\ resp' = Resp("mod", id, 404, "ATTEMPT_NOT_FOUND_OR_FORBIDDEN")
          /\ UNCHANGED attempts
     ELSE IF action \notin ModActions
     THEN /\ resp' = Resp("mod", id, 400, "INVALID_ACTION")
          /\ UNCHANGED attempts
     ELSE /\ attempts' = [attempts EXCEPT ![id] = modAttemptRow(@, action, seconds)]
          /\ resp' = Resp("mod", id, 200, "")
  /\ UNCHANGED <<exam, questions, answers, events, now>>

\* --------------------------------------------------------------- grading
OVERALL_FEEDBACK_QID == "__overall__"

\* an item of perQuestion: score is the raw JSON score, hasFeedback tells
\* whether item.feedback is defined
GradeItem(qid, score, hasFeedback, feedback) ==
  [questionId |-> qid, score |-> score, hasFeedback |-> hasFeedback, feedback |-> feedback]

\* scoreRaw == null ? null : Math.max(0, Number(scoreRaw)); the empty set
\* stands for NaN
gradeScore(scoreRaw) ==
  IF scoreRaw.t = "null" THEN {Null}
  ELSE {Max(0, n) : n \in NumberOr(scoreRaw, 0)}

\* findFirst + update / create of the grading handlers
gradeUpsert(ans, id, item, score) ==
  IF StoredRows(ans, id, item.questionId) = {}
  THEN ans \cup {AnswerRow(id, item.questionId, VNull, item.hasFeedback,
                           IF item.hasFeedback THEN item.feedback ELSE "", score)}
  ELSE OtherRows(ans, id, item.questionId)
       \cup {[r EXCEPT !.score = IF score # Null THEN score ELSE @,
                       !.wrapped = IF item.hasFeedback THEN TRUE ELSE @,
                       !.feedback = IF item.hasFeedback THEN item.feedback ELSE @] :
               r \in StoredRows(ans, id, item.questionId)}

RECURSIVE gradeLoop(_, _, _)
\* the loop over perQuestion; a score that is not a number ends it with 400
gradeLoop(items, ans, id) ==
  IF items = <<>> THEN [ans |-> ans, error |-> ""]
  ELSE LET item == Head(items) IN
       IF item.questionId = "" THEN gradeLoop(Tail(items), ans, id)
       ELSE IF gradeScore(item.score) = {} THEN [ans |-> ans, error |-> "SCORE_INVALID"]
       ELSE gradeLoop(Tail(items),
                      gradeUpsert(ans, id, item, CHOOSE x \in gradeScore(item.score) : TRUE),
                      id)

\* the overallFeedback pseudo-answer of the draft and finalize handlers
overallUpsert(ans, id, hasOverall, overallFeedback) ==
  IF ~hasOverall THEN ans
  ELSE IF StoredRows(ans, id, OVERALL_FEEDBACK_QID) = {}
  THEN ans \cup {AnswerRow(id, OVERALL_FEEDBACK_QID, VNull, TRUE, overallFeedback, Null)}
  ELSE OtherRows(ans, id, OVERALL_FEEDBACK_QID)
       \cup {[r EXCEPT !.wrapped = TRUE, !.feedback = overallFeedback, !.score = Null] :
               r \in StoredRows(ans, id, OVERALL_FEEDBACK_QID)}

RECURSIVE SumScores(_)
\* allAnswers.reduce: the sum of the numeric scores of the rows
SumScores(rows) ==
  IF rows = {} THEN 0
  ELSE LET r == CHOOSE x \in rows : TRUE
       IN  (IF r.score # Null THEN r.score ELSE 0) + SumScores(rows \ {r})

totalScore(ans, id) == SumScores({r \in ans : r.attemptId = id})

\* the Attempt row the grading handlers write
gradedAttemptRow(att, total, finalize) ==
  [att EXCEPT !.score = total,
              !.status = IF finalize THEN "graded" ELSE @]

\* the three grading handlers share their body: perQuestion loop, optional
\* overall feedback, total, attempt update
Grade(op, userId, id, perQuestion, hasOverall, overallFeedback, finalize) ==
  /\ id \in AttemptIds
  /\ IF ~hasExamRole(exam, userId)
     THEN /\ resp' = Resp(op, id, 403, "FORBIDDEN")
          /\ UNCHANGED <<attempts, answers>>
     ELSE LET out == gradeLoop(perQuestion, answers, id) IN
          IF out.error # ""
          THEN /\ answers' = out.ans
               /\ resp' = Resp(op, id, 400, out.error)
               /\ UNCHANGED attempts
          ELSE LET ans2 == overallUpsert(out.ans, id, hasOverall, overallFeedback) IN
               /\ answers' = ans2
               /\ attempts' = [attempts EXCEPT
                                 ![id] = gradedAttemptRow(@, totalScore(ans2, id), finalize)]
               /\ resp' = Resp(op, id, 200, "")
  /\ UNCHANGED <<exam, questions, events, now>>

\* PATCH /exams/:code/attempts/:attemptId/grading
GradingPatch(userId, id, perQuestion, finalize) ==
  Grade("grading_patch", userId, id, perQuestion, FALSE, "", finalize)

\* PATCH /teacher/grading/attempts/:attemptId/draft
GradingDraft(userId, id, perQuestion, hasOverall, overallFeedback) ==
  Grade("grading_draft", userId, id, perQuestion, hasOverall, overallFeedback, FALSE)

\* POST /teacher/grading/attempts/:attemptId/finalize
GradingFinalize(userId, id, perQuestion, hasOverall, overallFeedback) ==
  Grade("grading_finalize", userId, id, perQuestion, hasOverall, overallFeedback, TRUE)

\* ---------------------------------------------------------- exam settings
\* PUT /exams/:code: body.has names the fields present in the body
putExamRow(ex, body) ==
  [ex EXCEPT
     !.durationMins = IF "duration" \in body.has /\ body.duration >= 0
                      THEN body.duration ELSE @,
     !.lives = IF "lives" \in body.has THEN Max(0, body.lives) ELSE @,
     !.gradingMode = IF "gradingMode" \in body.has
                     THEN (IF body.gradingMode = "manual" THEN "manual" ELSE "auto")
                     ELSE @,
     !.isOpen = IF "isOpen" \in body.has THEN body.isOpen ELSE @]

PutExam(body) ==
  /\ exam' = putExamRow(exam, body)
  /\ resp' = Resp("put_exam", 0, 200, "")
  /\ UNCHANGED <<questions, attempts, answers, events, now>>

PutBody(has, lives, duration, gradingMode, isOpen) ==
  [has |-> has, lives |-> lives, duration |-> duration,
   gradingMode |-> gradingMode, isOpen |-> isOpen]

\* PUT /exams/:code/meta: the schedule fields; a falsy input (Null) clears
\* the field
putMetaRow(ex, body) ==
  [ex EXCEPT
     !.startsAt = IF "startsAt" \in body.has THEN body.startsAt ELSE @,
     !.endsAt = IF "endsAt" \in body.has THEN body.endsAt ELSE @]

PutMeta(body) ==
  /\ exam' = putMetaRow(exam, body)
  /\ resp' = Resp("put_meta", 0, 200, "")
  /\ UNCHANGED <<questions, attempts, answers, events, now>>

MetaBody(has, startsAt, endsAt) == [has |-> has, startsAt |-> startsAt, endsAt |-> endsAt]

\* ------------------------------------------------------- request inputs
T_blur == <<"b","l","u","r">>
T_copy_padded == <<" ","C","o","p","y"," ">>
T_tab_switch == <<"t","a","b","-","s","w","i","t","c","h">>
RawTypes == {T_blur, T_tab_switch}

DraftItem(qid, value) == [questionId |-> qid, value |-> value, oversized |-> FALSE]
SubmitItem(qid, value) == [questionId |-> qid, value |-> value]

DraftBodies == { <<DraftItem("q1", VNum(1))>> }
ExpiryDraftBodies == DraftBodies \cup { <<DraftItem("q2", VArr(<<S_gato, S_loro>>))>> }
SubmitBodies == { <<SubmitItem("q2", VArr(<<S_gato, S_loro>>))>> }
GradeBodies == { <<GradeItem("q1", VNum(2), FALSE, "")>> }
LivesBodies == {PutBody({"lives"}, l, 0, "auto", FALSE) : l \in 0..MaxLives}
TimingBodies ==
  {PutBody({"duration"}, 0, d, "auto", FALSE) : d \in {0, 1}}
  \cup {PutBody({"gradingMode"}, 0, 0, g, FALSE) : g \in {"auto", "manual"}}

\* one more request is served
Serve == served < MaxRequests /\ served' = served + 1 /\ UNCHANGED pending

\* --------------------------------------------------------- specifications
\* The lifecycle of one student's attempt under every handler.
Init == InitWith(ExamRows(0..MaxLives, {Null, 1}, {"auto", "manual"}, {Null}, {Null}))

Next ==
  \/ Tick
  \/ Serve /\ \E k \in {"email:ana@x"} : Start(k)
  \/ Serve /\ \E id \in AttemptIds : Summary(id)
  \/ Serve /\ \E u \in {OWNER} : ListAttempts(u)
  \/ Serve /\ \E id \in AttemptIds, b \in DraftBodies : SaveDraft(id, b)
  \/ Serve /\ \E id \in AttemptIds, b \in SubmitBodies : Submit(id, b)
  \/ Serve /\ \E id \in AttemptIds, t \in RawTypes : Antifraud(id, t)
  \/ Serve /\ \E id \in AttemptIds, t \in RawTypes : SEvent(id, t)
  \/ Serve /\ \E id \in AttemptIds, op \in {"increment", "decrement"} : LivesPatch(id, op)
  \/ Serve /\ \E u \in {OWNER}, id \in AttemptIds, a \in {"forgive_life", "add_time"},
                 s \in ExtraSeconds : Mod(u, id, a, s)
  \/ Serve /\ \E u \in {OWNER}, id \in AttemptIds, b \in GradeBodies, f \in BOOLEAN :
       GradingPatch(u, id, b, f)
  \/ Serve /\ \E u \in {OWNER}, id \in AttemptIds, b \in GradeBodies :
       GradingDraft(u, id, b, FALSE, "")
  \/ Serve /\ \E u \in {OWNER}, id \in AttemptIds, b \in GradeBodies :
       GradingFinalize(u, id, b, FALSE, "")
  \/ Serve /\ \E b \in LivesBodies : PutExam(b)

Spec == Init /\ [][Next]_vars

\* Penalty reports only: students start and the anti-fraud handlers run.
InitPenalty == InitWith(ExamRows(0..MaxLives, {Null}, {"auto"}, {Null}, {Null}))

NextPenalty ==
  \/ Tick
  \/ Serve /\ \E k \in StudentKeys : Start(k)
  \/ Serve /\ \E id \in AttemptIds, t \in RawTypes \cup {T_copy_padded} : Antifraud(id, t)
  \/ Serve /\ \E id \in AttemptIds, t \in RawTypes : SEvent(id, t)

SpecPenalty == InitPenalty /\ [][NextPenalty]_vars

\* Starting: two students, an opening window, and every way an attempt ends.
InitStart == InitWith(ExamRows({1}, {Null, 1}, {"auto"}, {Null, 30}, {Null, 60}))

NextStart ==
  \/ Tick
  \/ Serve /\ \E k \in StudentKeys \cup {""} : Start(k)
  \/ Serve /\ \E id \in AttemptIds, b \in SubmitBodies : Submit(id, b)
  \/ Serve /\ \E id \in AttemptIds : Antifraud(id, T_blur)
  \/ Serve /\ \E u \in Callers, id \in AttemptIds :
       GradingFinalize(u, id, <<>>, FALSE, "")

SpecStart == InitStart /\ [][NextStart]_vars

\* Expiry: the clock, extra time, drafts and the reads that check the deadline.
InitExpiry == InitWith(ExamRows({MaxLives}, {Null, 0, 1}, {"auto", "manual"}, {Null}, {Null}))

NextExpiry ==
  \/ Tick
  \/ Serve /\ \E k \in {"email:ana@x"} : Start(k)
  \/ Serve /\ \E id \in AttemptIds : Summary(id)
  \/ Serve /\ \E u \in Callers : ListAttempts(u)
  \/ Serve /\ \E id \in AttemptIds, b \in ExpiryDraftBodies : SaveDraft(id, b)
  \/ Serve /\ \E id \in AttemptIds, b \in SubmitBodies : Submit(id, b)
  \/ Serve /\ \E id \in AttemptIds, s \in ExtraSeconds : Mod(OWNER, id, "add_time", s)
  \/ Serve /\ \E id \in AttemptIds : GradingFinalize(OWNER, id, <<>>, FALSE, "")
  \/ Serve /\ \E b \in TimingBodies : PutExam(b)

SpecExpiry == InitExpiry /\ [][NextExpiry]_vars

\* The summary handler in its two revisions, on exams with and without a
\* duration.
InitSummaries == InitWith(ExamRows({MaxLives}, {Null, 0, 1}, {"auto"}, {Null}, {Null}))

NextSummaries ==
  \/ Tick
  \/ Serve /\ \E k \in StudentKeys : Start(k)
  \/ Serve /\ \E id \in AttemptIds : Summary(id)
  \/ Serve /\ \E id \in AttemptIds : SummaryOld(id)
  \/ Serve /\ \E id \in AttemptIds, s \in ExtraSeconds : Mod(OWNER, id, "add_time", s)

SpecSummaries == InitSummaries /\ [][NextSummaries]_vars

\* ------------------------------------------------------------ properties
Terminal == {"submitted", "graded"}

\* the request just served was op on attempt id
Served(op, id) == served' = served + 1 /\ resp'.op = op /\ resp'.id = id

\* a penalty report on attempt id was just served
PenaltyServed(id) == Served("antifraud", id) \/ Served("s_event", id)

\* the events recorded for attempt id whose reason is a penalizing tag
PenalizingEvents(id) ==
  {i \in DOMAIN events : events[i].attemptId = id /\ events[i].reason \in PENALTY_TYPES}

\* The auto-grading rule of the specification for the kinds of the bank:
\* multiple choice is all or nothing on the expected index, fill-in-blank is
\* proportional to the blanks that match ignoring case and outer blanks.
RulePartial(q, given) ==
  IF q.kind = K_MCQ
  THEN IF given.t = "num" /\ given.n = q.correct.n THEN q.points ELSE 0
  ELSE LET n == Len(q.correct.a)
           hits == {i \in 1..n : /\ given.t = "arr"
                                 /\ i <= Len(given.a)
                                 /\ toLowerCase(trim(given.a[i]))
                                      = toLowerCase(trim(q.correct.a[i]))}
       IN  IF n = 0 THEN 0 ELSE (q.points * Cardinality(hits)) \div n

RECURSIVE RuleScore(_, _)
\* the sum of the rule over the questions qs for the answers of attempt id
RuleScore(qs, id) ==
  IF qs = <<>> THEN 0
  ELSE RulePartial(Head(qs), GivenOf(answers, id, Head(qs).id)) + RuleScore(Tail(qs), id)

\* C1: for an exam with lives L, after any sequence of penalty reports on
\* its attempts, 0 <= livesUsed <= L in every state.
C1_LivesWithinLimit ==
  \A id \in AttemptIds :
    0 <= attempts[id].livesUsed /\ attempts[id].livesUsed <= exam.lives

\* C1 witness: more penalizing reports than lives were recorded for an
\* attempt, and its livesUsed stopped at the exam's lives.
C1_ClampReached ==
  \E id \in AttemptIds :
    /\ exam.lives = MaxLives
    /\ attempts[id].livesUsed = exam.lives
    /\ Cardinality(PenalizingEvents(id)) > exam.lives

\* C2: 0 <= attempt.livesUsed <= exam.lives in every state reached by penalty
\* reports, the lives patch, forgive_life and exam-settings updates.
C2_LivesWithinExamLives ==
  \A id \in AttemptIds : attempts[id].livesUsed \in 0..exam.lives

\* C3: a penalty report on a submitted or graded attempt leaves the attempt
\* row (livesUsed, status, endAt) and the event history as they were.
C3_PenaltyAfterCloseIsNoOp ==
  [][\A id \in AttemptIds :
       (attempts[id].status \in Terminal /\ PenaltyServed(id))
         => (attempts'[id] = attempts[id] /\ events' = events)]_vars

HasAttempt(studentKey) == \E id \in AttemptIds : attempts[id].studentId = studentKey

\* the student has an attempt that is in progress and not past its deadline
Resumable(studentKey) ==
  \E id \in AttemptIds :
    /\ attempts[id].studentId = studentKey
    /\ attempts[id].status = "in_progress"
    /\ attempts[id].endAt = Null
    /\ \/ exam.durationMins = Null
       \/ exam.durationMins <= 0
       \/ now < attempts[id].startAt + exam.durationMins * 60 + attempts[id].extraTimeSecs

C5_EndAtIffTerminal ==
  \A id \in AttemptIds :
    (attempts[id].endAt # Null) <=> (attempts[id].status \in Terminal)

\* C6: once endAt is set, no later request changes it.
C6_EndAtImmutable ==
  [][\A id \in AttemptIds :
       attempts[id].endAt # Null => attempts'[id].endAt = attempts[id].endAt]_vars

\* C7: from submitted the status can only stay or become graded, and that
\* only by grading finalization; from graded it never changes.
C7_TerminalAbsorbing ==
  [][\A id \in AttemptIds :
       /\ attempts[id].status = "graded" => attempts'[id].status = "graded"
       /\ attempts[id].status = "submitted" =>
            \/ attempts'[id].status = "submitted"
            \/ /\ attempts'[id].status = "graded"
               /\ resp'.op \in {"grading_patch", "grading_finalize"}]_vars

\* C8: the penalizing report that uses the last life of an in-progress
\* attempt leaves livesUsed = L, a terminal status, endAt set and, in auto
\* mode, the score of the answers drafted so far.
C8_ExhaustionFinalizes ==
  [][\A id \in AttemptIds :
       ( /\ PenaltyServed(id)
         /\ attempts[id].status = "in_progress" /\ attempts[id].endAt = Null
         /\ exam.lives >= 1
         /\ attempts[id].livesUsed = exam.lives - 1
         /\ attempts'[id].livesUsed = exam.lives )
       => /\ attempts'[id].status \in Terminal
          /\ attempts'[id].endAt = now
          /\ exam.gradingMode = "auto" => attempts'[id].score = RuleScore(questions, id)]_vars

NoDeadline == exam.durationMins = Null \/ exam.durationMins <= 0

\* a request that evaluates the expiry check was just served
ExpiryCheckServed ==
  served' = served + 1 /\ resp'.op \in {"summary", "summary_old", "list", "start"}

\* C9: the expiry check on an attempt of an exam without a deadline never
\* changes its status, endAt or score, whatever the time elapsed.
C9_NoDeadlineNeverExpires ==
  [][\A id \in AttemptIds :
       (NoDeadline /\ ExpiryCheckServed)
         => /\ attempts'[id].status = attempts[id].status
            /\ attempts'[id].endAt = attempts[id].endAt
            /\ attempts'[id].score = attempts[id].score]_vars

\* C10: the expiry check returns an attempt with endAt unchanged; else, with
\* a positive duration and now >= startAt + duration + extra time, it submits
\* it at now with the auto score (null in manual mode); else it changes
\* nothing.
C10_CheckExpiry ==
  [][\A id \in AttemptIds :
       Served("summary", id) =>
         LET att == attempts[id]
             due == /\ exam.durationMins # Null
                    /\ exam.durationMins > 0
                    /\ now >= att.startAt + exam.durationMins * 60 + att.extraTimeSecs
         IN  IF att.endAt = Null /\ due
             THEN attempts'[id] =
                    [att EXCEPT !.status = "submitted",
                                !.endAt = now,
                                !.score = IF exam.gradingMode = "manual" THEN Null
                                          ELSE RuleScore(questions, id)]
             ELSE attempts'[id] = att /\ answers' = answers]_vars

\* C10 witness: an attempt granted extra time was submitted by the summary
\* request exactly at its postponed deadline, with the score of its draft.
C10_ExpiredAtPostponedDeadline ==
  \E id \in AttemptIds :
    /\ resp.op = "summary" /\ resp.id = id
    /\ attempts[id].extraTimeSecs > 0
    /\ attempts[id].status = "submitted"
    /\ attempts[id].endAt = attempts[id].startAt + exam.durationMins * 60
                              + attempts[id].extraTimeSecs
    /\ attempts[id].endAt = now
    /\ attempts[id].score = 4

\* the attempt is in progress and its deadline has passed
PastDeadline(id) ==
  /\ attempts[id].status = "in_progress"
  /\ attempts[id].endAt = Null
  /\ exam.durationMins # Null
  /\ exam.durationMins > 0
  /\ now >= attempts[id].startAt + exam.durationMins * 60 + attempts[id].extraTimeSecs

\* the answer payloads stored, without their scores
Payloads(ans) == {<<r.attemptId, r.questionId, r.value>> : r \in ans}

\* C11: a Submit that arrives at or after the deadline finds the attempt
\* finalized by the expiry path first: the attempt is closed with the score
\* of the answers stored before the request (null in manual mode) and the
\* late answers are not stored.
C11_LateSubmitIsExpiry ==
  [][\A id \in AttemptIds :
       (Served("submit", id) /\ PastDeadline(id))
         => /\ attempts'[id].endAt = now
            /\ attempts'[id].score = IF exam.gradingMode = "manual" THEN Null
                                     ELSE RuleScore(questions, id)
            /\ Payloads(answers') = Payloads(answers)]_vars

Closed(id) == attempts[id].status # "in_progress" \/ attempts[id].endAt # Null

\* C12: a draft save on an attempt that is not in progress answers 409
\* ATTEMPT_CLOSED and writes no Answer; a draft save that succeeds writes
\* payloads only: every stored score is kept, a new row has no score, and
\* no Attempt row changes.
C12_DraftSaveFrame ==
  [][\A id \in AttemptIds :
       Served("draft", id) =>
         /\ attempts' = attempts
         /\ IF Closed(id)
            THEN /\ resp'.code = 409 /\ resp'.error = "ATTEMPT_CLOSED"
                 /\ answers' = answers
            ELSE /\ resp'.code = 200
                 /\ \A r \in answers :
                      \E n \in answers' :
                        /\ n.attemptId = r.attemptId /\ n.questionId = r.questionId
                        /\ n.score = r.score
                        /\ r.attemptId # id => n = r
                 /\ \A n \in answers' :
                      \/ \E r \in answers :
                           r.attemptId = n.attemptId /\ r.questionId = n.questionId
                      \/ n.attemptId = id /\ n.score = Null]_vars

\* C12 witness: a draft save was refused on a closed attempt that holds an
\* answer with a score.
C12_DraftRefusedOnClosed ==
  /\ resp.op = "draft" /\ resp.code = 409
  /\ resp.id \in AttemptIds
  /\ attempts[resp.id].status # "in_progress"
  /\ \E r \in answers : r.attemptId = resp.id /\ r.score # Null

OneRowPerPair ==
  \A r1, r2 \in answers :
    (r1.attemptId = r2.attemptId /\ r1.questionId = r2.questionId) => r1 = r2

\* C13: at most one Answer row exists per (attempt, question) whatever the
\* order of draft saves, submissions and gradings, and a draft save of the
\* value already stored for its pair leaves that single row holding it.
C13_OneAnswerPerPair ==
  /\ []OneRowPerPair
  /\ [][\A id \in AttemptIds, b \in DraftBodies :
          (Serve /\ SaveDraft(id, b) /\ resp'.code = 200)
            => \A i \in 1..Len(b) :
                 /\ Cardinality(StoredRows(answers', id, b[i].questionId)) = 1
                 /\ \A r \in StoredRows(answers', id, b[i].questionId) :
                      r.value = b[i].value]_vars

\* C13 witness: a pair that was drafted and then graded and drafted again
\* holds one row.
C13_DraftedGradedDrafted ==
  /\ resp.op = "draft" /\ resp.code = 200
  /\ \E r \in answers :
       /\ r.attemptId = resp.id
       /\ r.score # Null
       /\ r.value = VNum(1)
       /\ Cardinality(StoredRows(answers, resp.id, r.questionId)) = 1

\* Submissions of every shape: right and wrong choices, blanks that differ in
\* case and outer blanks, several answers, an answer to an unknown question.
S_Gato_padded == <<" ","G","a","t","o"," ">>
S_PERRO == <<"P","E","R","R","O">>

SubmitBodiesAll ==
  { <<SubmitItem("q1", VNum(1))>>,
    <<SubmitItem("q1", VNum(0))>>,
    <<SubmitItem("q2", VArr(<<S_gato, S_loro>>))>>,
    <<SubmitItem("q1", VNum(1)), SubmitItem("q2", VArr(<<S_Gato_padded, S_PERRO>>))>>,
    <<SubmitItem("q9", VNum(1))>> }

InitSubmit == InitWith(ExamRows({MaxLives}, {Null}, {"auto", "manual"}, {Null}, {Null}))

NextSubmit ==
  \/ Tick
  \/ Serve /\ \E k \in StudentKeys : Start(k)
  \/ Serve /\ \E id \in AttemptIds, b \in ExpiryDraftBodies : SaveDraft(id, b)
  \/ Serve /\ \E id \in AttemptIds, b \in SubmitBodiesAll : Submit(id, b)
  \/ Serve /\ \E u \in {OWNER}, id \in AttemptIds, b \in GradeBodies :
       GradingPatch(u, id, b, FALSE)

SpecSubmit == InitSubmit /\ [][NextSubmit]_vars

RECURSIVE RuleBodyScore(_)
\* the sum of the rule over the answers of a submitted body; an answer to a
\* question the exam does not have counts nothing
RuleBodyScore(arr) ==
  IF arr = <<>> THEN 0
  ELSE LET a == Head(arr)
           qi == {i \in 1..Len(questions) : questions[i].id = a.questionId}
       IN  (IF qi = {} THEN 0
            ELSE RulePartial(questions[CHOOSE i \in qi : TRUE], a.value))
           + RuleBodyScore(Tail(arr))

\* C14: a Submit with a non-empty answer list leaves the attempt submitted
\* with endAt = now; in auto mode its score is the sum of the partial scores
\* of the submitted answers, in manual mode its score is null and the rows of
\* the submitted answers have a null score.
C14_SubmitScores ==
  [][\A id \in AttemptIds, b \in SubmitBodiesAll :
       (Serve /\ Submit(id, b))
         => /\ attempts'[id].status = "submitted"
            /\ attempts'[id].endAt = now
            /\ IF exam.gradingMode = "manual"
               THEN /\ attempts'[id].score = Null
                    /\ \A i \in 1..Len(b) :
                         \A r \in StoredRows(answers', id, b[i].questionId) :
                           r.score = Null
               ELSE attempts'[id].score = RuleBodyScore(b)]_vars

\* C14 witness: an auto-graded submission of both questions, all right, got
\* the sum of both partial scores.
C14_SubmittedWithSum ==
  /\ resp.op = "submit" /\ resp.code = 200
  /\ exam.gradingMode = "auto"
  /\ attempts[resp.id].status = "submitted"
  /\ attempts[resp.id].score = 14
  /\ \E r \in answers : r.attemptId = resp.id /\ r.questionId = "q1" /\ r.score = 4
  /\ \E r \in answers : r.attemptId = resp.id /\ r.questionId = "q2" /\ r.score = 10

\* C15: a penalty report on an in-progress attempt adds one to livesUsed,
\* up to the exam's lives, exactly when its normalized tag is one of the
\* penalizing tags; any other tag is recorded and leaves livesUsed as it was.
C15_OnlyPenalizingTagsConsume ==
  [][\A id \in AttemptIds :
       ( /\ PenaltyServed(id)
         /\ resp'.code = 200
         /\ attempts[id].status = "in_progress" )
       => /\ Len(events') = Len(events) + 1
          /\ attempts'[id].livesUsed =
               IF events'[Len(events')].reason \in PENALTY_TYPES
               THEN Min(exam.lives, attempts[id].livesUsed + 1)
               ELSE attempts[id].livesUsed]_vars

\* Exams that are open or not (an exam is created as a draft and opened by
\* PUT /exams/:code), with the penalty handlers.
InitOpenness ==
  InitWith({[e EXCEPT !.isOpen = o] :
              e \in ExamRows(1..MaxLives, {Null}, {"auto"}, {Null}, {Null}),
              o \in BOOLEAN})

OpenBodies == {PutBody({"isOpen"}, 0, 0, "auto", o) : o \in BOOLEAN}

NextOpenness ==
  \/ Tick
  \/ Serve /\ \E k \in StudentKeys : Start(k)
  \/ Serve /\ \E id \in AttemptIds, t \in RawTypes : Antifraud(id, t)
  \/ Serve /\ \E id \in AttemptIds, t \in RawTypes : SEvent(id, t)
  \/ Serve /\ \E b \in OpenBodies : PutExam(b)

SpecOpenness == InitOpenness /\ [][NextOpenness]_vars

\* C16: a penalty report on an in-progress attempt of an exam that is not
\* open changes neither livesUsed nor status nor endAt.
C16_PenaltyOnClosedExamIsNoOp ==
  [][\A id \in AttemptIds :
       ( /\ PenaltyServed(id)
         /\ attempts[id].status = "in_progress"
         /\ ~exam.isOpen )
       => /\ attempts'[id].livesUsed = attempts[id].livesUsed
          /\ attempts'[id].status = attempts[id].status
          /\ attempts'[id].endAt = attempts[id].endAt]_vars

\* The schedule of the exam: students start before and after the opening
\* time, the teacher moves it, attempts get closed.
InitWindow == InitWith(ExamRows({1}, {Null}, {"auto"}, {Null, 60}, {Null}))

WindowBodies == {MetaBody({"startsAt"}, t, Null) : t \in {Null, 60, 90}}

NextWindow ==
  \/ Tick
  \/ Serve /\ \E k \in StudentKeys : Start(k)
  \/ Serve /\ \E b \in WindowBodies : PutMeta(b)
  \/ Serve /\ \E id \in AttemptIds : Antifraud(id, T_blur)

SpecWindow == InitWindow /\ [][NextWindow]_vars

BeforeOpening == exam.startsAt # Null /\ now < exam.startsAt

InitConcurrentStart == InitWith(ExamRows({1}, {Null}, {"auto"}, {Null}, {Null}))

NextConcurrentStart ==
  \/ Tick
  \/ Serve /\ \E k \in StudentKeys : Start(k)
  \/ \E k \in StudentKeys : StartLookup(k)
  \/ \E i \in DOMAIN pending : StartCreate(i)
  \/ Serve /\ \E id \in AttemptIds : Antifraud(id, T_blur)

SpecConcurrentStart == InitConcurrentStart /\ [][NextConcurrentStart]_vars

\* C18: whatever the interleaving of Start requests, a student has at most
\* one Attempt row on the exam.
C18_OneAttemptPerStudent ==
  \A k \in StudentKeys :
    Cardinality({id \in AttemptIds : attempts[id].studentId = k}) <= 1

\* Fill-in-blank grading: one fill-in-blank question per exam, with the
\* expected answer in the forms POST /exams/:code/questions stores (the object
\* {answers: [...]} or the bare array) and the points POST and PUT
\* /questions/:id accept.
FillQuestion(kind, correct, points) ==
  [id |-> "q2", kind |-> kind, correct |-> correct, points |-> points]

FillBanks ==
  { <<FillQuestion(K_FIB, VObj(<<S_gato, S_perro>>), 10)>>,
    <<FillQuestion(K_FILL_IN, VObj(<<S_Gato_padded>>), 4)>>,
    <<FillQuestion(K_FILL_IN, VObj(<<>>), 10)>>,
    <<FillQuestion(K_FILL_IN, VArr(<<S_gato, S_perro>>), 10)>>,
    <<FillQuestion(K_FILL_IN, VObj(<<S_gato>>), 0)>>,
    <<FillQuestion(K_FILL_IN, VObj(<<S_gato, S_perro>>), 0 - 2)>> }

FillGivens ==
  { VArr(<<S_gato, S_loro>>), VArr(<<S_gato, S_perro>>), VArr(<<S_loro, S_loro>>),
    VArr(<<S_Gato_padded, S_PERRO>>), VArr(<<S_loro>>), VArr(<<S_gato>>),
    VArr(<<>>) }

FillSubmitBodies == { <<SubmitItem("q2", g)>> : g \in FillGivens }
FillDraftBodies ==
  { <<DraftItem("q2", g)>> :
      g \in {VArr(<<S_gato, S_loro>>), VArr(<<S_Gato_padded, S_PERRO>>)} }

InitFillIn ==
  /\ exam \in ExamRows({MaxLives}, {1}, {"auto"}, {Null}, {Null})
  /\ questions \in FillBanks
  /\ attempts = <<>>
  /\ answers = {}
  /\ events = <<>>
  /\ now = 0
  /\ resp = Resp("none", 0, 0, "")
  /\ served = 0
  /\ pending = <<>>

NextFillIn ==
  \/ Tick
  \/ Serve /\ \E k \in StudentKeys : Start(k)
  \/ Serve /\ \E id \in AttemptIds, b \in FillDraftBodies : SaveDraft(id, b)
  \/ Serve /\ \E id \in AttemptIds, b \in FillSubmitBodies : Submit(id, b)
  \/ Serve /\ \E id \in AttemptIds : Summary(id)

SpecFillIn == InitFillIn /\ [][NextFillIn]_vars

\* the blanks of the expected answer, and those a given array matches
Blanks(q) == q.correct.a

Matches(q, given) ==
  {i \in 1..Len(Blanks(q)) :
     /\ i <= Len(given.a)
     /\ toLowerCase(trim(given.a[i])) = toLowerCase(trim(Blanks(q)[i]))}

\* score = points x matches / expected length, and 0 without blanks
IsRuleScore(score, q, given) ==
  IF Len(Blanks(q)) = 0 THEN score = 0
  ELSE score * Len(Blanks(q)) = q.points * Cardinality(Matches(q, given))

\* C19: auto-grading a fill-in-blank answer, at submission and at expiry,
\* scores it points x (index-wise matches ignoring case and outer blanks)
\* / (number of expected blanks), and 0 when nothing is expected.
C19_FillInScore ==
  [][\A id \in AttemptIds :
       /\ \A b \in FillSubmitBodies :
            (Serve /\ Submit(id, b))
              => \A r \in StoredRows(answers', id, "q2") :
                   IsRuleScore(r.score, questions[1], b[1].value)
       /\ (Served("summary", id) /\ PastDeadline(id))
            => \A r \in StoredRows(answers', id, "q2") :
                 IsRuleScore(r.score, questions[1], GivenOf(answers, id, "q2"))]_vars

\* given g2 matches one blank that g1 misses and equals g1 everywhere else
OneMoreMatch(q, g1, g2) ==
  /\ Len(g1.a) = Len(g2.a)
  /\ \E j \in Matches(q, g2) \ Matches(q, g1) :
       \A i \in 1..Len(g1.a) : i # j => g1.a[i] = g2.a[i]

\* for each question of the banks, the pairs of given answers that differ
\* by one more matching blank
OneMorePairs ==
  [b \in FillBanks |->
     {pr \in FillGivens \X FillGivens : OneMoreMatch(b[1], pr[1], pr[2])}]

\* what Answer.content holds for a given answer once submitted
FillStored == [g \in FillGivens |-> serializeAnswerContent(K_FILL_IN, g)]

\* the partial scores the two auto-graders give a fill-in-blank answer
FillScores(q, given) == {SubmitPartial(q, given), ExpiryPartial(q, given)}

\* over every question of the banks and every given answer: one more
\* matching blank never lowers the score, and the score is within 0..points
FillGradersMonotonic ==
  \A b \in FillBanks :
    /\ \A pr \in OneMorePairs[b] :
         /\ SubmitPartial(b[1], pr[1]) <= SubmitPartial(b[1], pr[2])
         /\ ExpiryPartial(b[1], pr[1]) <= ExpiryPartial(b[1], pr[2])
    /\ \A g \in FillGivens : \A sc \in FillScores(b[1], g) :
         0 <= sc /\ sc <= b[1].points

EffectivePoints(q) == IF q.points = 0 THEN 1 ELSE q.points

\* with p >= 0 the order of the scores follows the matches, with p < 0 it
\* is reversed
ScoreOrder(p, s1, s2) == IF p >= 0 THEN s1 <= s2 ELSE s1 >= s2

ScoreInRange(p, sc) == IF p >= 0 THEN 0 <= sc /\ sc <= p ELSE p <= sc /\ sc <= 0

FillGradersMonotonicInEffectivePoints ==
  \A b \in FillBanks :
    /\ \A pr \in OneMorePairs[b] :
         /\ ScoreOrder(EffectivePoints(b[1]),
                       SubmitPartial(b[1], pr[1]), SubmitPartial(b[1], pr[2]))
         /\ ScoreOrder(EffectivePoints(b[1]),
                       ExpiryPartial(b[1], pr[1]), ExpiryPartial(b[1], pr[2]))
    /\ \A g \in FillGivens : \A sc \in FillScores(b[1], g) :
         ScoreInRange(EffectivePoints(b[1]), sc)

S_1 == <<"1">>
K_ESSAY == <<"E","S","S","A","Y">>

\* one-question banks: every kind the graders know, the expected answers the
\* question handlers store for them, and a kind the graders do not know
KindBanks ==
  { <<FillQuestion(K_MCQ, VNum(1), 4)>>,
    <<FillQuestion(K_MCQ, VNum(0), 4)>>,
    <<FillQuestion(K_TRUE_FALSE, VBool(TRUE), 2)>>,
    <<FillQuestion(K_TEXT, VStr(S_gato), 3)>>,
    <<FillQuestion(K_SHORT_TEXT, VNull, 3)>>,
    <<FillQuestion(K_FILL_IN, VNull, 10)>>,
    <<FillQuestion(K_FILL_IN, VObj(<<S_gato>>), 10)>>,
    <<FillQuestion(K_ESSAY, VNull, 5)>> }

\* given values: none (null, or no value at all), the empty string, numbers,
\* a numeric string, a boolean, a text, an array of blanks
KindGivens ==
  { VNull, VStr(<<>>), VNum(0), VNum(1), VStr(S_1), VBool(TRUE), VStr(S_gato),
    VArr(<<S_gato>>) }

KindSubmitBodies == { <<SubmitItem("q2", g)>> : g \in KindGivens }
KindDraftBodies == { <<DraftItem("q2", g)>> : g \in KindGivens }

InitAutoGrade ==
  /\ exam \in ExamRows({MaxLives}, {1}, {"auto"}, {Null}, {Null})
  /\ questions \in KindBanks
  /\ attempts = <<>>
  /\ answers = {}
  /\ events = <<>>
  /\ now = 0
  /\ resp = Resp("none", 0, 0, "")
  /\ served = 0
  /\ pending = <<>>

NextAutoGrade ==
  \/ Tick
  \/ Serve /\ Start("email:ana@x")
  \/ Serve /\ \E id \in AttemptIds, b \in KindDraftBodies : SaveDraft(id, b)
  \/ Serve /\ \E id \in AttemptIds, b \in KindSubmitBodies : Submit(id, b)
  \/ Serve /\ \E id \in AttemptIds : Summary(id)

SpecAutoGrade == InitAutoGrade /\ [][NextAutoGrade]_vars

IsKind(q, kind) == normalizeQuestionKind(q.kind) = kind

\* the given value is the expected option index, as a number or in digits
IsExpectedIndex(q, given) ==
  /\ q.correct.t = "num"
  /\ \/ given.t = "num" /\ given.n = q.correct.n
     \/ given.t = "str" /\ given.s = NatToStr(q.correct.n)

\* C21: auto-grading a multiple-choice answer, at submission and at expiry,
\* stores the question's full points exactly when the given value is the
\* expected index, and 0 for every other given value.
C21_McqScore ==
  [][\A id \in AttemptIds :
       /\ \A b \in KindSubmitBodies :
            (Serve /\ Submit(id, b) /\ IsKind(questions[1], K_MCQ))
              => \A r \in StoredRows(answers', id, "q2") :
                   r.score = IF IsExpectedIndex(questions[1], b[1].value)
                             THEN questions[1].points ELSE 0
       /\ (Served("summary", id) /\ PastDeadline(id)
             /\ IsKind(questions[1], K_MCQ))
            => \A r \in StoredRows(answers', id, "q2") :
                 r.score = IF IsExpectedIndex(questions[1],
                                              GivenOf(answers, id, "q2"))
                           THEN questions[1].points ELSE 0]_vars


\* ---------------------------------------------------------- teacher grading
S_abc == <<"a","b","c">>

\* perQuestion bodies: a plain score, a valid item followed by a score that is
\* not a number, a negative score, a score on the reserved question id,
\* feedback without a score
GradeBodiesAll ==
  { <<GradeItem("q1", VNum(2), FALSE, "")>>,
    <<GradeItem("q1", VNum(3), TRUE, "ok"), GradeItem("q2", VStr(S_abc), FALSE, "")>>,
    <<GradeItem("q1", VNum(0 - 3), FALSE, "")>>,
    <<GradeItem(OVERALL_FEEDBACK_QID, VNum(5), FALSE, "")>>,
    <<GradeItem("q2", VNull, TRUE, "bien")>> }

InitGrading == InitWith(ExamRows({MaxLives}, {Null}, {"manual", "auto"}, {Null}, {Null}))

NextGrading ==
  \/ Serve /\ Start("email:ana@x")
  \/ Serve /\ \E id \in AttemptIds, b \in SubmitBodies : Submit(id, b)
  \/ Serve /\ \E u \in Callers, id \in AttemptIds, b \in GradeBodiesAll, f \in BOOLEAN :
       GradingPatch(u, id, b, f)
  \/ Serve /\ \E u \in Callers, id \in AttemptIds, b \in GradeBodiesAll, o \in BOOLEAN :
       GradingDraft(u, id, b, o, "general")
  \/ Serve /\ \E u \in Callers, id \in AttemptIds, b \in GradeBodiesAll, o \in BOOLEAN :
       GradingFinalize(u, id, b, o, "general")

SpecGrading == InitGrading /\ [][NextGrading]_vars

\* a grading call on attempt id was just served
GradeServed(id) ==
  \/ Served("grading_patch", id)
  \/ Served("grading_draft", id)
  \/ Served("grading_finalize", id)

\* C22: after every grading call (patch, draft, finalize) that succeeded or
\* stored anything, the attempt's score is the sum of the scores of all its
\* answer rows, and the overall-feedback pseudo-answer has a null score.
C22_GradeTotals ==
  [][\A id \in AttemptIds :
       (GradeServed(id) /\ (resp'.code = 200 \/ answers' # answers))
         => /\ attempts'[id].score = totalScore(answers', id)
            /\ \A r \in StoredRows(answers', id, OVERALL_FEEDBACK_QID) :
                 r.score = Null]_vars

\* C22, first half alone: the total after a grading call
C22_TotalIsSum ==
  [][\A id \in AttemptIds :
       (GradeServed(id) /\ (resp'.code = 200 \/ answers' # answers))
         => attempts'[id].score = totalScore(answers', id)]_vars

\* C22, second half alone: the pseudo-answer's score
C22_OverallScoreNull ==
  \A r \in answers : r.questionId = OVERALL_FEEDBACK_QID => r.score = Null


\* a raw score the grading operation accepts: none, or a number >= 0
IsValidScore(v) == v.t = "null" \/ (v.t = "num" /\ v.n >= 0)

HasInvalidScore(b) == \E i \in 1..Len(b) : ~IsValidScore(b[i].score)

\* C23: a grading call by a caller with a role on the exam whose perQuestion
\* holds a score that is negative or not a number is rejected with
\* SCORE_INVALID, and no row of the attempt takes a score from it.
C23_InvalidScoreRejected ==
  [][\A u \in Callers, id \in AttemptIds, b \in GradeBodiesAll, o \in BOOLEAN :
       ( /\ Serve
         /\ \/ GradingPatch(u, id, b, o)
            \/ GradingDraft(u, id, b, o, "general")
            \/ GradingFinalize(u, id, b, o, "general")
         /\ hasExamRole(exam, u)
         /\ HasInvalidScore(b) )
         => /\ resp'.error = "SCORE_INVALID"
            /\ \A i \in 1..Len(b) :
                 ~IsValidScore(b[i].score)
                   => \A r \in StoredRows(answers', id, b[i].questionId) :
                        \E r0 \in StoredRows(answers, id, b[i].questionId) :
                          r0.score = r.score]_vars


\* C24: a teacher intervention on lives or time (forgive / decrement a life,
\* add time, pause, resume) requested by a caller who is not the exam's owner
\* leaves every attempt unchanged.  PATCH /attempts/:id/lives reads no caller
\* at all, so any caller can issue it.
C24_InterventionsNeedOwner ==
  [][\A u \in Callers, id \in AttemptIds :
       ( /\ u # exam.ownerId
         /\ Serve
         /\ \/ \E a \in ModActions, s \in ExtraSeconds : Mod(u, id, a, s)
            \/ \E op \in {"increment", "decrement"} : LivesPatch(id, op) )
         => attempts' = attempts]_vars

\* C24 for POST /attempts/:id/mod alone
C24_ModNeedsOwner ==
  [][\A u \in Callers, id \in AttemptIds :
       ( /\ u # exam.ownerId
         /\ Serve
         /\ \E a \in ModActions, s \in ExtraSeconds : Mod(u, id, a, s) )
         => attempts' = attempts]_vars


\* ---------------------------------------------------- concurrent penalties
\* POST /attempts/:id/antifraud is not atomic: findUnique of the attempt and
\* prisma.attempt.update are separate awaits.  AntifraudRead is a request up
\* to its reads: it keeps the row it has read.
AntifraudRead(id, type) ==
  /\ id \in AttemptIds
  /\ type # <<>>
  /\ served < MaxRequests
  /\ served' = served + 1
  /\ pending' = Append(pending, [id |-> id,
                                 normalizedType |-> normalizedTypeAntifraud(type),
                                 attempt |-> attempts[id],
                                 maxLives |-> exam.lives])
  /\ UNCHANGED <<exam, questions, attempts, answers, events, now, resp>>

\* the row a request would write had it read the attempt again at its update
antifraudUpdateFresh(cur, req, t) ==
  penaltyAttemptRow(cur,
                    antifraudUsed(cur.livesUsed, req.maxLives, req.normalizedType),
                    req.maxLives, t)

\* prisma.attempt.update({ data: { livesUsed: used, status, endAt } }): the
\* three columns are computed from the row the request has read, the other
\* columns of the current row stay
antifraudUpdate(cur, req, t) ==
  LET used == antifraudUsed(req.attempt.livesUsed, req.maxLives, req.normalizedType)
      row == penaltyAttemptRow(req.attempt, used, req.maxLives, t)
  IN  [cur EXCEPT !.livesUsed = row.livesUsed,
                  !.status = row.status,
                  !.endAt = row.endAt]

\* the update, the event and the response of a pending penalty request
AntifraudWrite(i) ==
  /\ i \in DOMAIN pending
  /\ LET req == pending[i] IN
       /\ attempts' = [attempts EXCEPT ![req.id] = antifraudUpdate(@, req, now)]
       /\ events' = Append(events, Event(req.id, "ANTIFRAUD", req.normalizedType))
       /\ resp' = Resp("antifraud", req.id, 200, "")
  /\ pending' = SubSeq(pending, 1, i - 1) \o SubSeq(pending, i + 1, Len(pending))
  /\ UNCHANGED <<exam, questions, answers, now, served>>

InitRace == InitWith(ExamRows({MaxLives}, {1}, {"auto"}, {Null}, {Null}))

NextRace ==
  \/ Tick
  \/ Serve /\ Start("email:ana@x")
  \/ \E id \in AttemptIds, t \in {T_blur, T_tab_switch} : AntifraudRead(id, t)
  \/ \E i \in DOMAIN pending : AntifraudWrite(i)
  \/ Serve /\ \E id \in AttemptIds, b \in SubmitBodies : Submit(id, b)
  \/ Serve /\ \E id \in AttemptIds : Summary(id)

SpecRace == InitRace /\ [][NextRace]_vars

\* C25: the update of a penalizing request stores the lives computed from
\* the row it has read, whatever the row holds by then; so two concurrent
\* penalizing requests that both read livesUsed = k store k + 1 twice.
C25_WriteUsesItsRead ==
  [][\A i \in DOMAIN pending :
       (AntifraudWrite(i) /\ pending[i].normalizedType \in PENALTY_TYPES)
         => attempts'[pending[i].id].livesUsed
              = Min(pending[i].maxLives, pending[i].attempt.livesUsed + 1)]_vars

\* both requests completed, each recorded its event, one life was consumed
\* although two were left, and the attempt is still in progress
C25_LostUpdate ==
  \E id \in AttemptIds :
    /\ pending = <<>>
    /\ Cardinality(PenalizingEvents(id)) = 2
    /\ attempts[id].livesUsed = 1
    /\ exam.lives >= 2
    /\ attempts[id].status = "in_progress"


\* the kinds both graders have a rule for
GradedKinds == {K_TRUE_FALSE, K_MCQ, K_SHORT_TEXT, K_FILL_IN}

\* what a grader adds to the attempt score for a partial
Contribution(partial) == IF partial = Null THEN 0 ELSE partial

\* Submit stored what the expiry grader computes for the same question and
\* value, and the expiry check stored what Submit computes
SameRuleAt(id) ==
  /\ \A b \in KindSubmitBodies :
       (Serve /\ Submit(id, b))
         => /\ \A r \in StoredRows(answers', id, "q2") :
                 r.score = ExpiryPartial(questions[1], b[1].value)
            /\ attempts'[id].score
                 = Contribution(ExpiryPartial(questions[1], b[1].value))
  /\ (Served("summary", id) /\ PastDeadline(id))
       => /\ \A r \in StoredRows(answers', id, "q2") :
               r.score = SubmitPartial(questions[1], GivenOf(answers, id, "q2"))
          /\ attempts'[id].score
               = Contribution(SubmitPartial(questions[1], GivenOf(answers, id, "q2")))

\* C26: Submit and the expiry finalization grade alike: for every kind, the
\* unrecognized ones included, and every given value, both store the same
\* per-answer score and add the same amount to the attempt score.
C26_SameRule ==
  [][\A id \in AttemptIds : SameRuleAt(id)]_vars

\* C26 for the kinds both graders have a rule for
C26_SameRuleGradedKinds ==
  [][\A id \in AttemptIds :
       normalizeQuestionKind(questions[1].kind) \in GradedKinds
         => SameRuleAt(id)]_vars


\* C27: a report to POST /attempts/:id/antifraud whose normalized tag is not
\* penalizing leaves the attempt's livesUsed, status and endAt as they were,
\* also when the exam allows 0 lives or the attempt has used them all.
C27_NonPenalizingFrame ==
  [][\A id \in AttemptIds, t \in RawTypes :
       ( /\ Serve
         /\ Antifraud(id, t)
         /\ normalizedTypeAntifraud(t) \notin PENALTY_TYPES )
         => /\ attempts'[id].livesUsed = attempts[id].livesUsed
            /\ attempts'[id].status = attempts[id].status
            /\ attempts'[id].endAt = attempts[id].endAt]_vars

\* C27 while the attempt has lives left
C27_NonPenalizingFrameWithLivesLeft ==
  [][\A id \in AttemptIds, t \in RawTypes :
       ( /\ Serve
         /\ Antifraud(id, t)
         /\ normalizedTypeAntifraud(t) \notin PENALTY_TYPES
         /\ attempts[id].livesUsed < exam.lives )
         => /\ attempts'[id].livesUsed = attempts[id].livesUsed
            /\ attempts'[id].status = attempts[id].status
            /\ attempts'[id].endAt = attempts[id].endAt]_vars


\* the attempt was submitted, by Submit or by the expiry finalization
Submitted(att) == att.status = "submitted" /\ att.endAt # Null

\* C28: whatever the interleaving of penalty reports with Submit or the
\* expiry finalization, an attempt that has been submitted is never again in
\* progress and never again without endAt.
C28_SubmissionIsNotUndone ==
  [][\A id \in AttemptIds :
       Submitted(attempts[id])
         => /\ attempts'[id].status # "in_progress"
            /\ attempts'[id].endAt # Null]_vars


\* ------------------------------------------------------------ resubmission
\* answer lists that name a question more than once
SubmitBodiesRepeated ==
  { <<SubmitItem("q1", VNum(1)), SubmitItem("q1", VNum(1))>>,
    <<SubmitItem("q1", VNum(1)), SubmitItem("q1", VNum(1)),
      SubmitItem("q1", VNum(1)), SubmitItem("q1", VNum(1))>> }

InitResubmit == InitWith(ExamRows({MaxLives}, {Null}, {"auto"}, {Null}, {Null}))

NextResubmit ==
  \/ Serve /\ Start("email:ana@x")
  \/ Serve /\ \E id \in AttemptIds, b \in ExpiryDraftBodies : SaveDraft(id, b)
  \/ Serve /\ \E id \in AttemptIds, b \in SubmitBodiesAll \cup SubmitBodiesRepeated :
       Submit(id, b)

SpecResubmit == InitResubmit /\ [][NextResubmit]_vars

RECURSIVE TotalPoints(_)
\* the sum of the points of the exam's questions
TotalPoints(qs) ==
  IF qs = <<>> THEN 0 ELSE Head(qs).points + TotalPoints(Tail(qs))

\* C29: after any auto-graded Submit (a repeated questionId in the list, a
\* Submit after drafts, a second Submit with another subset), the attempt's
\* score is the sum of the scores stored in its answer rows and is at most
\* the sum of the points of the exam's questions.
C29_SubmitScoreIsStoredSum ==
  [][\A id \in AttemptIds :
       (Served("submit", id) /\ resp'.code = 200 /\ exam.gradingMode = "auto")
         => /\ attempts'[id].score = totalScore(answers', id)
            /\ attempts'[id].score <= TotalPoints(questions)]_vars

\* C29, the bound alone
C29_SubmitScoreWithinPoints ==
  [][\A id \in AttemptIds :
       (Served("submit", id) /\ resp'.code = 200 /\ exam.gradingMode = "auto")
         => attempts'[id].score <= TotalPoints(questions)]_vars

\* C29 for a first Submit whose list names each question once
C29_FirstSubmitOfDistinctQuestions ==
  [][\A id \in AttemptIds, b \in SubmitBodiesAll :
       (Serve /\ Submit(id, b) /\ resp'.code = 200 /\ attempts[id].status = "in_progress")
         => /\ attempts'[id].score = totalScore(answers', id)
            /\ attempts'[id].score <= TotalPoints(questions)]_vars


\* no answer was given: null (or no value at all) or the empty string
IsUnanswered(given) == given.t = "null" \/ (given.t = "str" /\ given.s = <<>>)

\* C30: under auto-grading an unanswered question earns nothing: for every
\* kind and expected answer (expected index 0 and a missing expected answer
\* included), a given value of null or "" is stored with no points and adds
\* nothing to the attempt score, at submission and at expiry.
C30_UnansweredScoresZero ==
  [][\A id \in AttemptIds :
       /\ \A b \in KindSubmitBodies :
            (Serve /\ Submit(id, b) /\ IsUnanswered(b[1].value))
              => /\ \A r \in StoredRows(answers', id, "q2") :
                      Contribution(r.score) = 0
                 /\ attempts'[id].score = 0
       /\ ( /\ Served("summary", id)
            /\ PastDeadline(id)
            /\ IsUnanswered(GivenOf(answers, id, "q2")) )
            => /\ \A r \in StoredRows(answers', id, "q2") :
                    Contribution(r.score) = 0
               /\ attempts'[id].score = 0]_vars

\* C30 for a given value of null alone
C30_NullScoresZero ==
  [][\A id \in AttemptIds :
       /\ \A b \in KindSubmitBodies :
            (Serve /\ Submit(id, b) /\ b[1].value = VNull)
              => /\ \A r \in StoredRows(answers', id, "q2") :
                      Contribution(r.score) = 0
                 /\ attempts'[id].score = 0
       /\ ( /\ Served("summary", id)
            /\ PastDeadline(id)
            /\ GivenOf(answers, id, "q2") = VNull )
            => /\ \A r \in StoredRows(answers', id, "q2") :
                    Contribution(r.score) = 0
               /\ attempts'[id].score = 0]_vars

====
